---- MODULE Spec2Model ----
(***************************************************************************)
(* NNFastAiTabularModel (autogluon/tabular/models/fastainn/                *)
(* tabular_nn_fastai.py): the trainer (_fit with its two callbacks), the   *)
(* persistence layer (save / load), the dataset assembler                  *)
(* (_generate_datasets), the preprocessing (_preprocess / _fill_missing)   *)
(* and the metric resolution.                                              *)
(*                                                                         *)
(* Python's None is the empty set and a present value v is {v}.            *)
(* Epochs are counted from 1: epoch e is the e-th completed epoch, and     *)
(* weights 0 are those of the freshly built, untrained learner.            *)
(***************************************************************************)
EXTENDS Integers, Sequences, FiniteSets, TLC

VARIABLES
    \* ---- trainer (_fit)
    pc,              \* position of _fit: idle, between, in_epoch, finalizing, fitted, error
    cfg,             \* what _fit resolved before the loop (lines 199-243)
    epoch,           \* completed epochs
    hist,            \* monitored metric of each completed epoch
    elapsed,         \* clock ticks since the callbacks were built
    model,           \* self.model: None, or the weights the learner holds
    ckpt,            \* the checkpoint file <temp_dir>/<self.name>: None or the epoch saved
    save_best,       \* AgSaveModelCallback.best
    save_best_epoch, \* AgSaveModelCallback.best_epoch
    es_best,         \* EarlyStoppingCallbackWithTimeLimit.best
    wait,            \* EarlyStoppingCallbackWithTimeLimit.wait
    stop_reason,     \* why fit_one_cycle ended
    params_trained,  \* self.params_trained['best_epoch']
    \* ---- persistence (save / load)
    obj,             \* the live object: model, _load_model, best_epoch
    disk,            \* per model directory: the configuration file and model-internals.pkl
    last_save,       \* outcome of the latest save call
    last_load,       \* outcome of the latest load call
    \* ---- dataset assembler (_generate_datasets)
    gd_in,           \* the arguments of the call: X, y, X_val, y_val
    gd_out,          \* what it returned: df_train, train_idx, val_idx
    \* ---- metric resolution
    stop_metric,     \* self.stopping_metric.name and self.problem_type, once set
    objective,       \* objective_func_name, the monitored name and objective_optim_mode
    \* ---- preprocessing (_preprocess / _fill_missing)
    f_pc,            \* unfit, fitted, fit_error, pre1 (a later call returned), pre2
    schema,          \* cat_columns, cont_columns, columns_fills, _inner_features
    schema_at_fit,   \* the schema as the fit call left it
    f_in,            \* the frame given to the later _preprocess call
    f_out1,          \* what that call returned or raised
    f_out2           \* _fill_missing applied to the frame it returned

tvars == <<pc, cfg, epoch, hist, elapsed, model, ckpt, save_best, save_best_epoch,
           es_best, wait, stop_reason, params_trained>>

pvars == <<obj, disk, last_save, last_load>>

dvars == <<gd_in, gd_out>>

mvars == <<stop_metric, objective>>

fvars == <<f_pc, schema, schema_at_fit, f_in, f_out1, f_out2>>

vars == <<tvars, pvars, dvars, mvars, fvars>>

\* what each component leaves alone
notTrainer == <<pvars, dvars, mvars, fvars>>
notPersistence == <<tvars, dvars, mvars, fvars>>
notAssembler == <<tvars, pvars, mvars, fvars>>
notMetric == <<tvars, pvars, dvars, fvars>>
notPreprocessing == <<tvars, pvars, dvars, mvars>>

None == {}
Some(v) == {v}
\* Python truthiness of an optional number: `if time_limit:` (None and 0 are false)
Truthy(o) == o # None /\ o # Some(0)

-----------------------------------------------------------------------------
\* Bounds of the model
MaxEpochs == 3
MaxMetric == 2
MaxPatience == 1
MaxTime == 2
MaxWeights == 2
NumPaths == 2
MaxRows == 2
MaxFrameRows == 2

-----------------------------------------------------------------------------
\* Metric resolution

\* keys of metrics_map
MetricsMap ==
    {"root_mean_squared_error", "mean_squared_error", "mean_absolute_error", "r2",
     "accuracy", "f1", "f1_macro", "f1_micro", "f1_weighted", "roc_auc",
     "precision", "precision_macro", "precision_micro", "precision_weighted",
     "recall", "recall_macro", "recall_micro", "recall_weighted", "log_loss"}

ProblemTypes == {"regression", "binary", "multiclass"}

\* __get_objective_func_name: unsupported metrics fall back to the problem type's default
GetObjectiveFuncName(stopping_metric, problem_type) ==
    IF stopping_metric \notin MetricsMap
    THEN IF problem_type = "regression" THEN "mean_squared_error" ELSE "log_loss"
    ELSE stopping_metric

\* __get_objective_func_to_monitor: the recorder column the callbacks monitor
GetObjectiveFuncToMonitor(objective_func_name) ==
    CASE objective_func_name = "roc_auc" -> "auroc"
      [] objective_func_name \in {"f1", "f1_macro", "f1_micro", "f1_weighted"} -> "f_beta"
      [] objective_func_name \in {"precision_macro", "precision_micro", "precision_weighted"}
            -> "precision"
      [] objective_func_name \in {"recall_macro", "recall_micro", "recall_weighted"}
            -> "recall"
      [] objective_func_name = "log_loss" -> "valid_loss"
      [] OTHER -> objective_func_name

\* objective_optim_mode: np.less for the four listed names, np.greater otherwise
ObjectiveOptimMode(objective_func_name) ==
    IF objective_func_name \in
         {"root_mean_squared_error", "mean_squared_error", "mean_absolute_error", "r2"}
    THEN "less" ELSE "greater"

\* comp(a, b) for comp in {np.less, np.greater}
Comp(comp, a, b) == IF comp = "less" THEN a < b ELSE a > b

-----------------------------------------------------------------------------
\* Callbacks (callbacks.py), after the trainer's state machine in the design
\* (section 4.5) and the tracker they extend

\* The tracker's comparison at an epoch boundary: the first value always counts
\* as an improvement (best starts at +/- infinity); afterwards the value has to
\* beat the best seen by more than min_delta in the comparison direction.
TrackerImproved(comp, min_delta, val, best) ==
    \/ best = None
    \/ \E b \in best :
          IF comp = "less" THEN Comp(comp, val + min_delta, b)
                           ELSE Comp(comp, val - min_delta, b)

\* AgSaveModelCallback at the end of epoch e with monitored value val: on an
\* improvement a checkpoint is taken and the best epoch recorded.  _fit builds
\* this callback without min_delta, so its threshold is the tracker's zero.
SaveCallbackAfterEpoch(c, e, val, best, best_epoch, file) ==
    IF TrackerImproved(c.comp, 0, val, best)
    THEN [best |-> Some(val), best_epoch |-> Some(e), file |-> Some(e)]
    ELSE [best |-> best, best_epoch |-> best_epoch, file |-> file]

\* EarlyStoppingCallbackWithTimeLimit at the end of epoch e, t ticks after it was
\* built: the best-epoch override halts at that epoch; an improvement resets the
\* counter, otherwise it increments and training halts once it exceeds the
\* patience; a supplied and exhausted time budget halts.
EarlyStoppingAfterEpoch(c, e, val, t, best, w) ==
    LET improved == TrackerImproved(c.comp, c.min_delta, val, best)
        w2 == IF improved THEN 0 ELSE w + 1
    IN  [best |-> IF improved THEN Some(val) ELSE best,
         wait |-> w2,
         stop |-> IF \E b \in c.best_epoch_stop : e >= b THEN "override"
                  ELSE IF (~improved) /\ w2 > c.patience THEN "early_stopped"
                  ELSE IF \E tl \in c.time_left : tl - t <= 0 THEN "time_exceeded"
                  ELSE "none"]

-----------------------------------------------------------------------------
\* Trainer: _fit

\* The stopping metrics the trainer runs are drawn from: two regression
\* objectives and an unsupported name that falls back to log_loss.
TrainMetrics ==
    {<<"mean_squared_error", "regression">>, <<"r2", "regression">>,
     <<"pac_score", "binary">>}

Opt(S) == {None} \cup {Some(v) : v \in S}

InitTrain ==
    /\ pc = "idle"
    /\ cfg = None
    /\ epoch = 0
    /\ hist = <<>>
    /\ elapsed = 0
    /\ model = None
    /\ ckpt = None
    /\ save_best = None
    /\ save_best_epoch = None
    /\ es_best = None
    /\ wait = 0
    /\ stop_reason = "none"
    /\ params_trained = [best_epoch |-> None]

\* _fit up to the training loop (lines 173-251): resolve the objective, compute
\* time_left, build the learner and the two callbacks, enter a fresh temp dir.
\* `pre` is time.time() - start_time at line 217.  has_val says whether X_val
\* was given: _preprocess_train hands its absence to _generate_datasets, and
\* nothing else in _fit reads it; the callbacks are built the same either way.
FitStart(sm, pt, epochs, patience, min_delta, time_limit, best_epoch_stop, pre, has_val) ==
    /\ pc = "idle"
    /\ LET name == GetObjectiveFuncName(sm, pt)
       IN cfg' = [objective_func_name |-> name,
                  monitor |-> GetObjectiveFuncToMonitor(name),
                  comp |-> ObjectiveOptimMode(name),
                  epochs |-> epochs,
                  patience |-> patience,
                  min_delta |-> min_delta,
                  time_limit |-> time_limit,
                  time_left |-> IF Truthy(time_limit)
                                THEN {tl - pre : tl \in time_limit}
                                ELSE None,
                  best_epoch_stop |-> best_epoch_stop,
                  has_val |-> has_val]
    /\ model' = Some(0)
    /\ ckpt' = None
    /\ save_best' = None
    /\ save_best_epoch' = None
    /\ es_best' = None
    /\ wait' = 0
    /\ epoch' = 0
    /\ hist' = <<>>
    /\ elapsed' = 0
    /\ stop_reason' = IF epochs = 0 THEN "epochs" ELSE "none"
    /\ pc' = IF epochs = 0 THEN "finalizing" ELSE "between"
    /\ UNCHANGED params_trained
    /\ UNCHANGED notTrainer

\* fit_one_cycle starts the next epoch
EpochBegin ==
    /\ pc = "between"
    /\ pc' = "in_epoch"
    /\ UNCHANGED <<cfg, epoch, hist, elapsed, model, ckpt, save_best, save_best_epoch,
                   es_best, wait, stop_reason, params_trained>>
    /\ UNCHANGED notTrainer

\* fit_one_cycle finishes the epoch in progress (an epoch takes one tick of the
\* clock and the monitored value is val) and runs the callbacks in list order:
\* [save_callback, early_stopping]
EpochEnd(val) ==
    /\ pc = "in_epoch"
    /\ LET e == epoch + 1
           t == elapsed + 1
           s == SaveCallbackAfterEpoch(cfg, e, val, save_best, save_best_epoch, ckpt)
           es == EarlyStoppingAfterEpoch(cfg, e, val, t, es_best, wait)
           reason == IF es.stop # "none" THEN es.stop
                     ELSE IF e = cfg.epochs THEN "epochs" ELSE "none"
       IN /\ epoch' = e
          /\ elapsed' = t
          /\ hist' = Append(hist, val)
          /\ model' = Some(e)
          /\ save_best' = s.best
          /\ save_best_epoch' = s.best_epoch
          /\ ckpt' = s.file
          /\ es_best' = es.best
          /\ wait' = es.wait
          /\ stop_reason' = reason
          /\ pc' = IF reason = "none" THEN "between" ELSE "finalizing"
    /\ UNCHANGED <<cfg, params_trained>>
    /\ UNCHANGED notTrainer

\* A variant of FitFinish that keeps the learner as the last epoch left it
FitFinishNoLoad ==
    /\ pc = "finalizing"
    /\ pc' = "fitted"
    /\ params_trained' = [params_trained EXCEPT !.best_epoch = save_best_epoch]
    /\ UNCHANGED <<cfg, epoch, hist, elapsed, model, ckpt, save_best, save_best_epoch,
                   es_best, wait, stop_reason>>
    /\ UNCHANGED notTrainer

\* A variant of FitFinish whose load of a missing checkpoint is a no-op
FitFinishSilent ==
    /\ pc = "finalizing"
    /\ model' = IF ckpt = None THEN model ELSE ckpt
    /\ pc' = "fitted"
    /\ params_trained' = [params_trained EXCEPT !.best_epoch = save_best_epoch]
    /\ UNCHANGED <<cfg, epoch, hist, elapsed, ckpt, save_best, save_best_epoch,
                   es_best, wait, stop_reason>>
    /\ UNCHANGED notTrainer

\* After fit_one_cycle (lines 256-266): self.model.load(self.name) reads the
\* checkpoint file, which raises when no checkpoint was written; then
\* params_trained['best_epoch'] = save_callback.best_epoch.
FitFinish ==
    /\ pc = "finalizing"
    /\ IF ckpt = None
       THEN /\ pc' = "error"
            /\ UNCHANGED <<model, params_trained>>
       ELSE /\ model' = ckpt
            /\ params_trained' = [params_trained EXCEPT !.best_epoch = save_best_epoch]
            /\ pc' = "fitted"
    /\ UNCHANGED <<cfg, epoch, hist, elapsed, ckpt, save_best, save_best_epoch,
                   es_best, wait, stop_reason>>
    /\ UNCHANGED notTrainer

\* The inputs of _fit: the override is the best epoch of an earlier run with the
\* same number of epochs, and the clock is read only for a truthy time_limit.
NextTrain ==
    \/ \E mp \in TrainMetrics, epochs \in 0..MaxEpochs, patience \in 0..MaxPatience,
          min_delta \in 0..1, time_limit \in Opt(0..MaxTime), has_val \in BOOLEAN :
          \E best_epoch_stop \in Opt(1..epochs),
             pre \in (IF Truthy(time_limit) THEN 0..1 ELSE {0}) :
             FitStart(mp[1], mp[2], epochs, patience, min_delta, time_limit,
                      best_epoch_stop, pre, has_val)
    \/ EpochBegin
    \/ \E val \in 0..MaxMetric : EpochEnd(val)
    \/ FitFinish

-----------------------------------------------------------------------------
\* Claims about the trainer

\* The epoch whose monitored value is the best of the run under the comparison
\* direction (the first one, when several epochs share the best value)
BestEpoch(h, comp) ==
    CHOOSE e \in 1..Len(h) :
        /\ \A j \in 1..Len(h) : ~Comp(comp, h[j], h[e])
        /\ \A j \in 1..(e - 1) : h[j] # h[e]

\* C1: whenever _fit returns after at least one completed epoch, whatever ended
\* the loop, self.model holds the weights of the epoch whose monitored value was
\* the best under the comparison direction, and params_trained['best_epoch']
\* records that epoch.
C1_BestCheckpointRestored ==
    (pc = "fitted" /\ epoch >= 1) =>
        /\ model = Some(BestEpoch(hist, cfg.comp))
        /\ params_trained.best_epoch = Some(BestEpoch(hist, cfg.comp))

\* C1 witness: an early-stopped run returned a best epoch that is not the last one
C1_Witness ==
    /\ pc = "fitted"
    /\ stop_reason = "early_stopped"
    /\ model # Some(epoch)
    /\ params_trained.best_epoch = model

\* Whether the objective is an error or loss (lower is better) or a score
LowerIsBetter(objective_func_name) ==
    objective_func_name \in
        {"root_mean_squared_error", "mean_squared_error", "mean_absolute_error", "log_loss"}

\* new improves on old by more than min_delta, in the objective's own sense
ImprovesBy(objective_func_name, min_delta, new, old) ==
    IF LowerIsBetter(objective_func_name) THEN new + min_delta < old
                                          ELSE new - min_delta > old

\* The run's values improve at each of the first k epochs and at none after
ImprovesThenPlateaus(k) ==
    /\ \A i \in 2..k : ImprovesBy(cfg.objective_func_name, cfg.min_delta, hist[i], hist[i - 1])
    /\ \A j \in (k + 1)..Len(hist) :
          ~ImprovesBy(cfg.objective_func_name, cfg.min_delta, hist[j], hist[k])

\* C2: with no time budget and no override, a run whose metric improves at each
\* of the first k epochs and then stops improving, with more than `patience`
\* epochs left to run, halts at epoch k + patience and returns checkpoint k.
C2_EarlyStoppingAtKPlusPatience ==
    (pc = "fitted" /\ cfg.time_limit = None /\ cfg.best_epoch_stop = None) =>
        \A k \in 1..Len(hist) :
            (ImprovesThenPlateaus(k) /\ cfg.epochs > k + cfg.patience) =>
                (epoch = k + cfg.patience /\ model = Some(k))

\* The budget left when the callbacks were built
BudgetLeft(c) == IF c.time_left # None THEN c.time_left ELSE c.time_limit

\* C3: when a time limit was supplied, training does not go on past an epoch
\* boundary at which the budget is exhausted.
C3_TimeBudgetHalts ==
    (pc = "between" /\ epoch >= 1 /\ cfg.time_limit # None) =>
        \E left \in BudgetLeft(cfg) : elapsed < left

\* C4: _fit never returns normally unless an epoch completed and the learner
\* holds trained weights with a recorded best epoch; a run that ended before any
\* epoch completed ends in an error.
C4_NoSilentUntrainedModel ==
    /\ (pc = "fitted") =>
          (epoch >= 1 /\ model \notin {None, Some(0)} /\ params_trained.best_epoch # None)
    /\ (pc \in {"fitted", "error"} /\ epoch = 0) => pc = "error"

\* C4 witness: the loop ended with no epoch completed and _fit raised
C4_Witness == pc = "error" /\ epoch = 0 /\ ckpt = None

\* C11: a _fit call without validation data, whose validation split is the
\* copy of the training rows, never ends its training loop early-stopped on a
\* plateau of the monitored metric, with or without a best_epoch override.
C11_NoEarlyStoppingWithoutValidation ==
    (pc \in {"finalizing", "fitted"} /\ ~cfg.has_val) => stop_reason # "early_stopped"

\* C11, for the calls that carry a best_epoch override only
C11_NoEarlyStoppingInRefit ==
    (pc \in {"finalizing", "fitted"} /\ ~cfg.has_val /\ cfg.best_epoch_stop # None) =>
        stop_reason # "early_stopped"

-----------------------------------------------------------------------------
\* Persistence: save / load

Paths == 1..NumPaths

NoCall == [status |-> "none"]

InitPersist ==
    /\ obj = [model |-> None, load_model |-> None, best_epoch |-> None]
    /\ disk = [p \in Paths |-> [config |-> None, internals |-> None, saved_model |-> None]]
    /\ last_save = NoCall
    /\ last_load = NoCall

\* The outcome of a completed _fit: a learner with weights w, best epoch recorded
Fitted(w) ==
    /\ obj' = [obj EXCEPT !.model = Some(w), !.best_epoch = Some(w)]
    /\ UNCHANGED <<disk, last_save, last_load>>
    /\ UNCHANGED notPersistence

\* AbstractModel.save: the object as it stands is written to the configuration file
AbstractSave(o) == Some(o)

\* AbstractModel.load: the configuration file is read back; a missing file raises
AbstractLoad(file) == IF file = None THEN [status |-> "config_missing"]
                      ELSE [status |-> "ok", object |-> CHOOSE o \in file : TRUE]

\* load_pkl.load_with_fn on the model-internals file: a missing file raises
LoadWithFn(file) == IF file = None THEN [status |-> "internals_missing"]
                    ELSE [status |-> "ok", model |-> file]

\* save(path): _load_model is set from the live handle, the handle is detached,
\* the configuration is written, the handle is restored; then, for a fitted
\* model, the export's file name is built from `path_final`, a name bound
\* nowhere, so the call raises NameError before anything is exported and
\* before _load_model is reset.  saved_model remembers the handle the saving
\* object held.
Save(path) ==
    LET lm == obj.model # None
        detached == [obj EXCEPT !.load_model = Some(lm), !.model = None]
    IN  /\ disk' = [disk EXCEPT ![path].config = AbstractSave(detached),
                                ![path].saved_model = obj.model]
        /\ IF lm
           THEN /\ obj' = [obj EXCEPT !.load_model = Some(TRUE)]
                /\ last_save' = [status |-> "NameError", path |-> path, fitted |-> TRUE]
           ELSE /\ obj' = [obj EXCEPT !.load_model = None]
                /\ last_save' = [status |-> "ok", path |-> path, fitted |-> FALSE]
        /\ UNCHANGED last_load
        /\ UNCHANGED notPersistence

\* A variant of Load that never reads the model-internals file
LoadSkipInternals(path) ==
    LET c == AbstractLoad(disk[path].config)
    IN  /\ IF c.status # "ok"
           THEN /\ last_load' = [status |-> c.status, path |-> path]
                /\ UNCHANGED obj
           ELSE /\ obj' = [c.object EXCEPT !.load_model = None]
                /\ last_load' = [status |-> "ok", path |-> path,
                                 config_load_model |-> c.object.load_model = Some(TRUE),
                                 read_internals |-> FALSE,
                                 internals_present |-> disk[path].internals # None,
                                 model |-> None]
        /\ UNCHANGED <<disk, last_save>>
        /\ UNCHANGED notPersistence

\* load(path): the configuration is read first; the model-internals file is
\* read only when the configuration's _load_model is true; _load_model is then
\* reset and the object returned (the caller's handle becomes the loaded object).
Load(path) ==
    LET c == AbstractLoad(disk[path].config)
    IN  /\ IF c.status # "ok"
           THEN /\ last_load' = [status |-> c.status, path |-> path]
                /\ UNCHANGED obj
           ELSE LET flag == c.object.load_model = Some(TRUE)
                    m == IF flag THEN LoadWithFn(disk[path].internals)
                                 ELSE [status |-> "ok", model |-> c.object.model]
                IN  IF m.status # "ok"
                    THEN /\ last_load' = [status |-> m.status, path |-> path,
                                          config_load_model |-> flag,
                                          read_internals |-> flag,
                                          internals_present |-> disk[path].internals # None]
                         /\ UNCHANGED obj
                    ELSE /\ obj' = [c.object EXCEPT !.model = m.model, !.load_model = None]
                         /\ last_load' = [status |-> "ok", path |-> path,
                                          config_load_model |-> flag,
                                          read_internals |-> flag,
                                          internals_present |-> disk[path].internals # None,
                                          model |-> m.model]
        /\ UNCHANGED <<disk, last_save>>
        /\ UNCHANGED notPersistence

NextPersist ==
    \/ \E w \in 1..MaxWeights : Fitted(w)
    \/ \E path \in Paths : Save(path)
    \/ \E path \in Paths : Load(path)

-----------------------------------------------------------------------------
\* Claims about the persistence layer

\* C5: save of a fitted model completes and writes both files, and a load that
\* follows returns a non-null model handle equal to the one that was saved (so
\* that its predictions on every input are those made before the save).
C5_SaveLoadRoundTrip ==
    /\ (last_save.status # "none" /\ last_save.fitted) =>
          /\ last_save.status = "ok"
          /\ disk[last_save.path].config # None
          /\ disk[last_save.path].internals # None
    /\ (last_load.status # "none" /\ disk[last_load.path].saved_model # None) =>
          /\ last_load.status = "ok"
          /\ last_load.model # None
          /\ last_load.model = disk[last_load.path].saved_model

\* C6: a load that read a configuration never returns an object whose
\* configuration said a model was present while its model handle is missing;
\* when the configuration says so and the model-internals file is absent the
\* load fails; and the model-internals file is read only when the
\* configuration says a model was present.
C6_LoadMatchedPair ==
    (last_load.status \notin {"none", "config_missing"}) =>
        /\ (last_load.status = "ok" /\ last_load.config_load_model) => last_load.model # None
        /\ (last_load.config_load_model /\ ~last_load.internals_present) =>
              last_load.status # "ok"
        /\ last_load.read_internals => last_load.config_load_model

\* C6 witness: the export of a save failed after the configuration was written,
\* and the load of that directory failed on the missing model-internals file
C6_Witness ==
    /\ last_save.status = "NameError"
    /\ last_load.status = "internals_missing"
    /\ last_load.path = last_save.path
    /\ last_load.config_load_model

-----------------------------------------------------------------------------
\* Dataset assembler: _generate_datasets

\* pd.concat([a, b], ignore_index=True), where b may be None
Concat(a, b) == IF b = None THEN a ELSE a \o (CHOOSE v \in b : TRUE)

\* np.arange(n) + offset
Arange(n, offset) == [i \in 1..n |-> (i - 1) + offset]

\* A variant of GenerateDatasets whose validation indices are not shifted
GenerateDatasetsNoOffset(X, y, X_val, y_val) ==
    LET feats == Concat(X, X_val)
        labels == Concat(y, y_val)
        df == [i \in 1..Len(feats) |-> [x |-> feats[i], label |-> labels[i]]]
        train_idx == Arange(Len(X), 0)
    IN  IF X_val = None
        THEN [df_train |-> df \o df, train_idx |-> train_idx, val_idx |-> train_idx]
        ELSE [df_train |-> df, train_idx |-> train_idx,
              val_idx |-> Arange(Len(CHOOSE v \in X_val : TRUE), 0)]

\* _generate_datasets(X, y, X_val, y_val): the frames are concatenated under a
\* fresh 0..n-1 index, the labels become the LABEL column, and without
\* validation data the frame is doubled and the second copy is the validation split
GenerateDatasets(X, y, X_val, y_val) ==
    LET feats == Concat(X, X_val)
        labels == Concat(y, y_val)
        df == [i \in 1..Len(feats) |-> [x |-> feats[i], label |-> labels[i]]]
        train_idx == Arange(Len(X), 0)
    IN  IF X_val = None
        THEN [df_train |-> df \o df, train_idx |-> train_idx,
              val_idx |-> [i \in 1..Len(train_idx) |-> train_idx[i] + Len(train_idx)]]
        ELSE [df_train |-> df, train_idx |-> train_idx,
              val_idx |-> Arange(Len(CHOOSE v \in X_val : TRUE), Len(X))]

InitAssembler ==
    /\ gd_in = None
    /\ gd_out = None

\* One call of _generate_datasets
Assemble(X, y, X_val, y_val) ==
    /\ gd_in = None
    /\ gd_in' = Some([X |-> X, y |-> y, X_val |-> X_val, y_val |-> y_val])
    /\ gd_out' = Some(GenerateDatasets(X, y, X_val, y_val))
    /\ UNCHANGED notAssembler

\* Frames of up to MaxRows rows with their labels: <<features, labels>>
SeqsUpTo(S, n) == UNION {[1..k -> S] : k \in 0..n}
Labelled == {fl \in SeqsUpTo(0..1, MaxRows) \X SeqsUpTo(0..1, MaxRows) : Len(fl[1]) = Len(fl[2])}

NextAssembler ==
    \/ \E tr \in Labelled : Assemble(tr[1], tr[2], None, None)
    \/ \E tr \in Labelled, va \in Labelled : Assemble(tr[1], tr[2], Some(va[1]), Some(va[2]))

\* the values of an index array
Range(f) == {f[i] : i \in DOMAIN f}

\* C7: the train and validation indices are disjoint and together cover every
\* row of the assembled frame; with m validation rows and n training rows the
\* frame has n + m rows, train is [0, n) and validation [n, n + m); without
\* validation data the frame has 2n rows, train is [0, n), validation [n, 2n)
\* and row n + i is a copy of row i.
C7_IndexPartition ==
    \A i \in gd_in, o \in gd_out :
        LET n == Len(i.X)
            rows == Len(o.df_train)
        IN  /\ Range(o.train_idx) \cap Range(o.val_idx) = {}
            /\ Range(o.train_idx) \cup Range(o.val_idx) = 0..(rows - 1)
            /\ Len(o.train_idx) + Len(o.val_idx) = rows
            /\ Range(o.train_idx) = 0..(n - 1)
            /\ IF i.X_val = None
               THEN /\ rows = 2 * n
                    /\ Range(o.val_idx) = n..(2 * n - 1)
                    /\ \A k \in 0..(n - 1) : o.df_train[n + k + 1] = o.df_train[k + 1]
               ELSE \A xv \in i.X_val :
                    /\ rows = n + Len(xv)
                    /\ Range(o.val_idx) = n..(n + Len(xv) - 1)

\* C7 witness: a call without validation data on a frame of two different rows
C7_Witness ==
    \E i \in gd_in, o \in gd_out :
        /\ i.X_val = None
        /\ Len(i.X) = 2
        /\ i.X[1] # i.X[2]
        /\ Len(o.val_idx) = 2

-----------------------------------------------------------------------------
\* Metric resolution in _fit

\* Names a stopping metric can carry: the supported ones and two that are not
StoppingMetrics == MetricsMap \cup {"pac_score", "median_absolute_error"}

InitMetric ==
    /\ stop_metric = None
    /\ objective = None

\* The model is built for a problem type with a stopping metric
SetStoppingMetric(name, problem_type) ==
    /\ stop_metric = None
    /\ stop_metric' = Some([name |-> name, problem_type |-> problem_type])
    /\ UNCHANGED objective
    /\ UNCHANGED notMetric

\* _fit, lines 199-203: the objective, the name to monitor and the direction
\* handed to both callbacks
ResolveObjective ==
    /\ stop_metric # None
    /\ objective = None
    /\ \E sm \in stop_metric :
          LET name == GetObjectiveFuncName(sm.name, sm.problem_type)
          IN  objective' = Some([objective_func_name |-> name,
                                 monitor |-> GetObjectiveFuncToMonitor(name),
                                 comp |-> ObjectiveOptimMode(name)])
    /\ UNCHANGED stop_metric
    /\ UNCHANGED notMetric

NextMetric ==
    \/ \E name \in StoppingMetrics, problem_type \in ProblemTypes :
          SetStoppingMetric(name, problem_type)
    \/ ResolveObjective

\* C10: the direction handed to the callbacks is lower-is-better when the
\* resolved objective is an error or a loss and higher-is-better when it is a score.
C10_DirectionMatchesMetric ==
    \A o \in objective :
        /\ o.objective_func_name \in MetricsMap
        /\ o.comp = IF LowerIsBetter(o.objective_func_name) THEN "less" ELSE "greater"

-----------------------------------------------------------------------------
\* Preprocessing: _preprocess and _fill_missing
\*
\* A frame is its column names in order and, per column, the category set (of
\* a categorical column) and the cells; a null cell is None.  Numbers are
\* fractions <<numerator, denominator>>, so that a mean is exact.

MISSING == "__!#ag_internal_missing#!__"

\* feature_metadata.get_features(valid_raw_types=[R_OBJECT, R_CATEGORY, R_BOOL])
CatFeatures == <<"c1">>
\* feature_metadata.get_features(valid_raw_types=[R_INT, R_FLOAT, R_DATETIME])
ContFeatures == <<"n1">>

\* params.get('max_unique_categorical_values', 10000)
DefaultMaxUnique == 10000

Columns(df) == {df.order[i] : i \in DOMAIN df.order}

\* [f for f in features if f in keep]
Only(features, keep) == SelectSeq(features, LAMBDA f : f \in keep)

\* the 'unique' row of X.describe(include='all'): distinct non-null values
NUnique(col) == Cardinality(UNION {col.vals[i] : i \in DOMAIN col.vals})

RECURSIVE SumNumerators(_)
SumNumerators(cells) ==
    IF cells = <<>> THEN 0
    ELSE (IF Head(cells) = None THEN 0 ELSE (CHOOSE v \in Head(cells) : TRUE)[1])
         + SumNumerators(Tail(cells))

\* X[c].mean() of a raw numeric column: nulls are skipped, NaN when all are null
Mean(col) ==
    LET present == {i \in DOMAIN col.vals : col.vals[i] # None}
    IN  IF present = {} THEN None
        ELSE Some(<<SumNumerators(col.vals), Cardinality(present)>>)

\* Series.fillna(fill); filling with NaN leaves the nulls
FillNa(cells, fill) == [i \in DOMAIN cells |-> IF cells[i] = None THEN fill ELSE cells[i]]

\* A variant of FillMissing that takes the schema columns the frame has
FillMissingLenient(df, sch) ==
    IF \E i \in DOMAIN sch.cat_columns :
          /\ sch.cat_columns[i] \in Columns(df)
          /\ MISSING \in df.cols[sch.cat_columns[i]].cats
    THEN [status |-> "ValueError"]
    ELSE LET inner == Only(sch.inner_features, Columns(df))
         IN  [status |-> "ok",
              frame |-> [order |-> inner,
                         cols |-> [c \in {inner[i] : i \in DOMAIN inner} |->
                                     [cats |-> df.cols[c].cats,
                                      vals |-> FillNa(df.cols[c].vals, sch.columns_fills[c])]]]]

\* _fill_missing(df): df[self._inner_features] raises KeyError when a column is
\* absent; each categorical column gets the MISSING category added, which
\* raises ValueError when the column already has it, and its nulls filled with
\* it; each continuous column gets its nulls filled with the stored mean.
FillMissing(df, sch) ==
    IF \E i \in DOMAIN sch.inner_features : sch.inner_features[i] \notin Columns(df)
    THEN [status |-> "KeyError"]
    ELSE IF \E i \in DOMAIN sch.cat_columns : MISSING \in df.cols[sch.cat_columns[i]].cats
    THEN [status |-> "ValueError"]
    ELSE [status |-> "ok",
          frame |-> [order |-> sch.inner_features,
                     cols |-> [c \in {sch.inner_features[i] : i \in DOMAIN sch.inner_features} |->
                                 IF \E i \in DOMAIN sch.cat_columns : sch.cat_columns[i] = c
                                 THEN [cats |-> df.cols[c].cats \cup {MISSING},
                                       vals |-> FillNa(df.cols[c].vals, sch.columns_fills[c])]
                                 ELSE [cats |-> df.cols[c].cats,
                                       vals |-> FillNa(df.cols[c].vals, sch.columns_fills[c])]]]]

\* The schema the fit call computes from X (lines 125-144)
FitSchema(X, max_unique) ==
    LET cat_cols_to_drop == {c \in Columns(X) :
                                \/ c \in {ContFeatures[i] : i \in DOMAIN ContFeatures}
                                \/ NUnique(X.cols[c]) > max_unique}
        cat_cols_to_keep == Columns(X) \ cat_cols_to_drop
        cat_cols_to_use == Only(CatFeatures, cat_cols_to_keep)
        cats == Only(cat_cols_to_use, Columns(X))
        conts == Only(ContFeatures, Columns(X))
    IN  [cat_columns |-> cats,
         cont_columns |-> conts,
         columns_fills |-> [c \in {cats[i] : i \in DOMAIN cats} \cup {conts[i] : i \in DOMAIN conts} |->
                              IF \E i \in DOMAIN cats : cats[i] = c THEN Some(MISSING)
                              ELSE Mean(X.cols[c])],
         inner_features |-> cats \o conts]

InitPreprocessing ==
    /\ f_pc = "unfit"
    /\ schema = [cat_columns |-> None, cont_columns |-> None, columns_fills |-> None,
                 inner_features |-> None]
    /\ schema_at_fit = None
    /\ f_in = None
    /\ f_out1 = None
    /\ f_out2 = None

\* _preprocess(X, fit=True): the schema is computed and stored, then
\* _fill_missing(X) is returned (or raises, with the schema already stored)
PreprocessFit(X, max_unique) ==
    /\ f_pc = "unfit"
    /\ LET sch == FitSchema(X, max_unique)
       IN  /\ schema' = sch
           /\ schema_at_fit' = Some(sch)
           /\ f_pc' = IF FillMissing(X, sch).status = "ok" THEN "fitted" ELSE "fit_error"
    /\ UNCHANGED <<f_in, f_out1, f_out2>>
    /\ UNCHANGED notPreprocessing

\* _preprocess(X) with fit=False: nothing is assigned, _fill_missing(X) is returned
Preprocess(X) ==
    /\ f_pc = "fitted"
    /\ f_in' = Some(X)
    /\ f_out1' = Some(FillMissing(X, schema))
    /\ f_pc' = "pre1"
    /\ UNCHANGED <<schema, schema_at_fit, f_out2>>
    /\ UNCHANGED notPreprocessing

\* _fill_missing applied to the frame the call returned
FillAgain ==
    /\ f_pc = "pre1"
    /\ \E r \in f_out1 :
          /\ r.status = "ok"
          /\ f_out2' = Some(FillMissing(r.frame, schema))
    /\ f_pc' = "pre2"
    /\ UNCHANGED <<schema, schema_at_fit, f_in, f_out1>>
    /\ UNCHANGED notPreprocessing

\* The caller is done with the frames; the object stays as the calls left it
Return ==
    /\ f_pc \in {"pre1", "pre2"}
    /\ f_pc' = "fitted"
    /\ f_in' = None
    /\ f_out1' = None
    /\ f_out2' = None
    /\ UNCHANGED <<schema, schema_at_fit>>
    /\ UNCHANGED notPreprocessing

\* Input frames: up to MaxFrameRows rows, a categorical column c1 (whose
\* category set may already hold MISSING) and a numeric column n1, either or
\* both present, in either order.
CatCells == {None, Some("u"), Some("v")}
NumCells == {None, Some(<<0, 1>>), Some(<<2, 1>>)}
Orders == {<<"c1">>, <<"n1">>, <<"c1", "n1">>, <<"n1", "c1">>}
Frames(r) ==
    {[order |-> o,
      cols |-> [c \in {o[i] : i \in DOMAIN o} |->
                  IF c = "c1" THEN [cats |-> {"u", "v"} \cup extra, vals |-> cv]
                              ELSE [cats |-> {}, vals |-> nv]]] :
        o \in Orders, extra \in {{}, {MISSING}},
        cv \in [1..r -> CatCells], nv \in [1..r -> NumCells]}
AllFrames == UNION {Frames(r) : r \in 1..MaxFrameRows}

NextPreprocessing ==
    \/ \E X \in AllFrames, max_unique \in {1, DefaultMaxUnique} : PreprocessFit(X, max_unique)
    \/ \E X \in AllFrames : Preprocess(X)
    \/ FillAgain
    \/ Return

-----------------------------------------------------------------------------
\* Claims about the preprocessing

\* C8: when _fill_missing returned a frame, applying _fill_missing to that
\* frame succeeds and returns the same frame, and the stored fill values are
\* those of the fit call.
C8_FillMissingIdempotent ==
    (f_pc = "pre2") =>
        /\ f_out2 = f_out1
        /\ Some(schema) = schema_at_fit

\* C9: a _preprocess call after the fit leaves the schema as the fit call set
\* it; the frame it returns has exactly the schema's columns, categorical first
\* and then continuous; and it raises when a schema column is absent from its input.
C9_SchemaStability ==
    (f_pc = "pre1") =>
        \A X \in f_in, r \in f_out1 :
            /\ Some(schema) = schema_at_fit
            /\ schema.inner_features = schema.cat_columns \o schema.cont_columns
            /\ r.status = "ok" =>
                  /\ r.frame.order = schema.inner_features
                  /\ DOMAIN r.frame.cols = {schema.inner_features[i] : i \in DOMAIN schema.inner_features}
            /\ (\E i \in DOMAIN schema.inner_features : schema.inner_features[i] \notin Columns(X))
                  => r.status = "KeyError"

\* C9 witness: a later call on a frame that lacks a schema column raised
C9_Witness ==
    /\ f_pc = "pre1"
    /\ Len(schema.inner_features) = 2
    /\ \E X \in f_in, r \in f_out1 : Len(X.order) = 1 /\ r.status = "KeyError"

-----------------------------------------------------------------------------
\* Specifications

Init == InitTrain /\ InitPersist /\ InitAssembler /\ InitMetric /\ InitPreprocessing

\* the trainer
Next == NextTrain
Spec == Init /\ [][Next]_vars

\* the persistence layer
SpecPersist == Init /\ [][NextPersist]_vars

\* the dataset assembler
SpecAssembler == Init /\ [][NextAssembler]_vars

\* the metric resolution
SpecMetric == Init /\ [][NextMetric]_vars

\* the preprocessing
SpecPreprocessing == Init /\ [][NextPreprocessing]_vars

====
